---- MODULE Spec2Model ----
(***************************************************************************)
(* A model of nbudata: the NBU exchange-rate tool (exchange.py), the       *)
(* government-bond tool (gbonds.py) and the dashboard callback             *)
(* (web_exchange.py).                                                      *)
(*                                                                         *)
(* Python values are modelled as follows.                                  *)
(*   - None is NoneVal; a JSON array is List(s) with s a sequence; so a    *)
(*     value that may be None or a list is always a record with a type     *)
(*     field.                                                              *)
(*   - A JSON object (dict) is a TLA+ record; a key the object lacks is a  *)
(*     field the record lacks.                                             *)
(*   - A calendar date (datetime.date) is a record [year, month, day].     *)
(*   - The text of a date is the tuple of its zero-padded digit groups in  *)
(*     written order: "2024-02-01" is <<2024, 2, 1>>, "02/01/2024" is      *)
(*     <<2, 1, 2024>>.  Fixed-width digit groups compare as text exactly   *)
(*     as these tuples compare lexicographically.                          *)
(*   - A raised exception ends the handler: result.kind = "raised".        *)
(***************************************************************************)
EXTENDS Integers, Sequences, FiniteSets, TLC

VARIABLES
    today,      \* date.today() of the machine the tool runs on
    upstream,   \* what the NBU service answers, per endpoint
    call,       \* the operation last invoked, with its arguments
    gets,       \* the GET requests that invocation issued, in order
    stages,     \* the stages that invocation ran after its fetch, in order
    result,     \* what the invocation returned, or the exception it raised
    console,    \* what the invocation printed
    files       \* the files the invocation wrote

vars == <<today, upstream, call, gets, stages, result, console, files>>

----------------------------------------------------------------------------
(* Bounds of the model. *)

MaxRecords == 3     \* records handed to filter_isins
MaxIds == 2         \* ids in an isin list
MaxEvents == 2      \* payment events in one response of the bond endpoint

----------------------------------------------------------------------------
(* Python values. *)

NoneVal == [type |-> "NoneType"]

List(s) == [type |-> "list", items |-> s]

IsNone(v) == v.type = "NoneType"

\* Python truthiness of an optional list: None and [] are falsy.
Truthy(v) == v.type = "list" /\ Len(v.items) > 0

Returned(v) == [kind |-> "returned", value |-> v]

Raised(e) == [kind |-> "raised", exc |-> e]

Range(s) == {s[i] : i \in 1..Len(s)}

SeqsUpTo(S, n) == UNION {[1..k -> S] : k \in 0..n}

Date(y, m, d) == [year |-> y, month |-> m, day |-> d]

\* datetime.date ordering
DateLess(a, b) ==
    \/ a.year < b.year
    \/ a.year = b.year /\ a.month < b.month
    \/ a.year = b.year /\ a.month = b.month /\ a.day < b.day

\* str ordering of two date texts (tuples of digit groups)
TextLess(a, b) ==
    \/ a[1] < b[1]
    \/ a[1] = b[1] /\ a[2] < b[2]
    \/ a[1] = b[1] /\ a[2] = b[2] /\ a[3] < b[3]

\* str ordering of the currency codes the model uses
CodeRank(c) == CASE c = "EUR" -> 1 [] c = "UAH" -> 2 [] c = "USD" -> 3 [] OTHER -> 4

Idle ==
    /\ call = [op |-> "none"]
    /\ gets = <<>>
    /\ stages = <<>>
    /\ result = [kind |-> "none"]
    /\ console = <<>>
    /\ files = <<>>

----------------------------------------------------------------------------
(* gbonds.py: filter_isins *)

\* filter_isins with the membership test inverted: a fault the filter's
\* theorem must tell from the code.
filter_isins_inverted(data, isins) ==
    IF Truthy(isins)
    THEN LET keep(item) == item.cpcode \notin Range(isins.items)
         IN  Returned(List(SelectSeq(data.items, keep)))
    ELSE Returned(data)

filter_isins(data, isins) ==
    IF Truthy(isins)
    THEN IF IsNone(data)
         THEN Raised("TypeError")       \* iterating None
         ELSE LET keep(item) == item.cpcode \in Range(isins.items)
              IN  Returned(List(SelectSeq(data.items, keep)))
    ELSE Returned(data)

----------------------------------------------------------------------------
(* exchange.py: RequestBuilder *)

RATES_URL == "https://bank.gov.ua/NBU_Exchange/exchange_site"

\* date.strftime("%Y%m%d")
strftime_Ymd(d) == <<d.year, d.month, d.day>>

\* build with the order flag read the wrong way round: a fault the builder's
\* theorem must tell from the code.
build_order_swapped(rb) ==
    LET base == [start |-> strftime_Ymd(rb.date_from),
                 end |-> strftime_Ymd(rb.date_to),
                 valcode |-> rb.currency,
                 sort |-> rb.sort_by,
                 order |-> IF rb.is_sort_desc THEN "asc" ELSE "desc"]
    IN  [url |-> rb.url,
         url_params |-> IF rb.is_json_format
                        THEN base @@ [json |-> TRUE]
                        ELSE base]

build(rb) ==
    LET base == [start |-> strftime_Ymd(rb.date_from),
                 end |-> strftime_Ymd(rb.date_to),
                 valcode |-> rb.currency,
                 sort |-> rb.sort_by,
                 order |-> IF rb.is_sort_desc THEN "desc" ELSE "asc"]
    IN  [url |-> rb.url,
         url_params |-> IF rb.is_json_format
                        THEN base @@ [json |-> TRUE]
                        ELSE base]

\* RequestBuilder(date_from, date_to, currency, sort_by): the dataclass defaults
RequestBuilder(date_from, date_to, currency, sort_by) ==
    [date_from |-> date_from, date_to |-> date_to, currency |-> currency,
     sort_by |-> sort_by, is_sort_desc |-> TRUE, url |-> RATES_URL,
     is_json_format |-> TRUE]

----------------------------------------------------------------------------
(* The upstream service and the two fetchers. *)

URL_JSON == "https://bank.gov.ua/depo_securities?json"

\* An answer of the service to one GET: an HTTP response, or no response at all.
HttpResponse(status, reason, body) ==
    [kind |-> "response", status_code |-> status, reason |-> reason, body |-> body]

TransportError == [kind |-> "transport_error", exc |-> "ConnectionError"]

Failed(resp) == resp.kind = "transport_error" \/ resp.status_code # 200

\* print(f"Can't get data. Reason: {res.reason}. Status: {res.status_code}")
CantGetData(resp) ==
    [kind |-> "message", text |-> "Can't get data",
     reason |-> resp.reason, status |-> resp.status_code]

\* handle_response without the status check: a fault the fetcher's theorem
\* must tell from the code.
handle_response_unchecked(resp) ==
    IF resp.kind = "transport_error"
    THEN [out |-> Raised(resp.exc), printed |-> <<>>]
    ELSE [out |-> Returned(resp.body), printed |-> <<>>]

\* The part get_json and get_rates share: what follows requests.get(...).
\* requests.get raises on a transport failure; nothing catches it.
handle_response(resp) ==
    IF resp.kind = "transport_error"
    THEN [out |-> Raised(resp.exc), printed |-> <<>>]
    ELSE IF resp.status_code = 200
         THEN [out |-> Returned(resp.body), printed |-> <<>>]
         ELSE [out |-> Returned(NoneVal), printed |-> <<CantGetData(resp)>>]

\* One GET as the invocation's log keeps it.
Get(url, params, resp) == [url |-> url, params |-> params, failed |-> Failed(resp)]

NoParams == [x \in {} |-> TRUE]

get_json(up) ==
    LET resp == up["bonds"]
    IN  handle_response(resp) @@ [get |-> Get(URL_JSON, NoParams, resp)]

exchange_date == "exchangedate"

get_rates(up, currency, from_date, to_date) ==
    LET req == RequestBuilder(from_date, to_date, currency, exchange_date)
        b == build(req)
        resp == up[currency]
    IN  handle_response(resp) @@ [get |-> Get(b.url, b.url_params, resp)]

----------------------------------------------------------------------------
(* gbonds.py: show_payments, the data-frame pipeline step by step. *)

\* pd.to_datetime(text).dt.date: the text is year-first when it opens with a
\* four-digit group (ISO, "2024-02-01"), month-first otherwise ("02/01/2024").
to_datetime(text) ==
    IF text[1] > 31
    THEN Date(text[1], text[2], text[3])
    ELSE Date(text[3], text[1], text[2])

\* pd.DataFrame(data): the rows of the frame; None and [] give an empty frame.
DataFrame(data) == IF IsNone(data) THEN <<>> ELSE data.items

\* The columns of a frame: every key some row has.
Columns(rows) == UNION {DOMAIN rows[i] : i \in 1..Len(rows)}

Without(rec, key) == [k \in DOMAIN rec \ {key} |-> rec[k]]

\* df.explode("payments"), df["payments"].apply(pd.Series) and pd.concat, for
\* one bond: a row per payment event holding the bond's other columns and the
\* event's keys; a bond with no payment gives one row whose event columns are
\* all NaN (absent here).
ExplodeBond(bond) ==
    LET base == Without(bond, "payments")
    IN  IF Len(bond.payments) = 0
        THEN <<base>>
        ELSE [i \in 1..Len(bond.payments) |-> bond.payments[i] @@ base]

RECURSIVE Explode(_)
Explode(rows) ==
    IF rows = <<>> THEN <<>>
    ELSE ExplodeBond(Head(rows)) \o Explode(Tail(rows))

\* The order groupby gives its groups (sort=True): by the key columns as they
\* are at that point, pay_date still being text.
KeyLess(a, b) ==
    \/ TextLess(a[1], b[1])
    \/ a[1] = b[1] /\ CodeRank(a[2]) < CodeRank(b[2])

RECURSIVE SortKeys(_)
SortKeys(S) ==
    IF S = {} THEN <<>>
    ELSE LET m == CHOOSE x \in S : \A y \in S \ {x} : KeyLess(x, y)
         IN  <<m>> \o SortKeys(S \ {m})

\* agg(pay_per_bond=("pay_val", "sum")) of one group: NaN is skipped.
RECURSIVE SumPayVal(_, _)
SumPayVal(rows, key) ==
    IF rows = <<>> THEN 0
    ELSE LET r == Head(rows)
             hit == /\ "pay_date" \in DOMAIN r
                    /\ <<r.pay_date, r.val_code>> = key
                    /\ "pay_val" \in DOMAIN r
         IN  (IF hit THEN r.pay_val ELSE 0) + SumPayVal(Tail(rows), key)

\* groupby(["pay_date", "val_code"], as_index=False).agg(...): rows whose
\* pay_date is NaN belong to no group (dropna=True).
GroupKeys(rows) ==
    {<<rows[i].pay_date, rows[i].val_code>> :
        i \in {j \in 1..Len(rows) : "pay_date" \in DOMAIN rows[j]}}

GroupBySum(rows) ==
    LET keys == SortKeys(GroupKeys(rows))
    IN  [i \in 1..Len(keys) |->
            [pay_date |-> keys[i][1], val_code |-> keys[i][2],
             pay_per_bond |-> SumPayVal(rows, keys[i])]]

\* Horizon with a strict comparison, so that a payment due today is dropped:
\* a fault the horizon theorem must tell from the code.
HorizonStrict(rows, include_paid, now) ==
    IF include_paid THEN rows
    ELSE LET keep(r) == DateLess(now, r.pay_date)
         IN  SelectSeq(rows, keep)

\* if not include_paid: df = df.loc[df["pay_date"] >= date.today()]
Horizon(rows, include_paid, now) ==
    IF include_paid THEN rows
    ELSE LET keep(r) == ~DateLess(r.pay_date, now)
         IN  SelectSeq(rows, keep)

\* Lines 111-121: the ledger, or the KeyError a missing column raises.
\* The frame df.sort_values(...) returns is dropped, so df keeps the order
\* groupby gave it.
Aggregate(data, include_paid, now) ==
    LET df == DataFrame(data)
    IN  IF "payments" \notin Columns(df) THEN Raised("KeyError")
        ELSE LET flat == Explode(df)
             IN  IF \/ "pay_date" \notin Columns(flat)
                    \/ "val_code" \notin Columns(flat)
                    \/ "pay_val" \notin Columns(flat)
                 THEN Raised("KeyError")
                 ELSE LET grouped == GroupBySum(flat)
                          dated == [i \in 1..Len(grouped) |->
                                      [grouped[i] EXCEPT
                                          !.pay_date = to_datetime(@)]]
                      IN  Returned(Horizon(dated, include_paid, now))

\* What one invocation did.
Effect(g, st, res, con, fs) ==
    [gets |-> g, stages |-> st, result |-> res, console |-> con, files |-> fs]

Table(rows) == [kind |-> "table", rows |-> rows]

show_payments(up, isins, include_paid, now) ==
    LET f == get_json(up)
    IN  IF f.out.kind = "raised"
        THEN Effect(<<f.get>>, <<>>, f.out, <<>>, <<>>)
        ELSE
        LET data == filter_isins(f.out.value, isins)
        IN  IF data.kind = "raised"
            THEN Effect(<<f.get>>, <<"filter_isins">>, data, f.printed, <<>>)
            ELSE
            LET df == Aggregate(data.value, include_paid, now)
            IN  IF df.kind = "raised"
                THEN Effect(<<f.get>>, <<"filter_isins", "aggregate">>, df,
                            f.printed, <<>>)
                ELSE Effect(<<f.get>>, <<"filter_isins", "aggregate", "print">>,
                            Returned(NoneVal),
                            f.printed \o <<Table(df.value)>>, <<>>)

----------------------------------------------------------------------------
(* gbonds.py: show, to_file, save. *)

\* The handler stops at the fetch when requests.get raised.
FetchRaised(f) == Effect(<<f.get>>, <<>>, f.out, <<>>, <<>>)

gbonds_show(up, isins, format) ==
    LET f == get_json(up)
    IN  IF f.out.kind = "raised" THEN FetchRaised(f)
        ELSE
        LET data == filter_isins(f.out.value, isins)
        IN  IF data.kind = "raised"
            THEN Effect(<<f.get>>, <<"filter_isins">>, data, f.printed, <<>>)
            ELSE IF format = "json"
            THEN \* print(json.dumps(data, ...)): None is dumped as null
                 Effect(<<f.get>>, <<"filter_isins", "print">>, Returned(NoneVal),
                        f.printed \o <<[kind |-> "json", value |-> data.value]>>,
                        <<>>)
            ELSE IF format = "table"
            THEN \* df.drop(columns="payments") needs the column
                 IF "payments" \notin Columns(DataFrame(data.value))
                 THEN Effect(<<f.get>>, <<"filter_isins", "DataFrame">>,
                             Raised("KeyError"), f.printed, <<>>)
                 ELSE Effect(<<f.get>>, <<"filter_isins", "DataFrame", "print">>,
                             Returned(NoneVal),
                             f.printed \o <<Table(
                                [i \in 1..Len(data.value.items) |->
                                    Without(data.value.items[i], "payments")])>>,
                             <<>>)
            ELSE Effect(<<f.get>>, <<"filter_isins">>, Raised("AttributeError"),
                        f.printed, <<>>)

File(path, content) == [path |-> path, content |-> content]

to_file(up, isins, dir_path) ==
    LET f == get_json(up)
    IN  IF f.out.kind = "raised" THEN FetchRaised(f)
        ELSE
        LET data == filter_isins(f.out.value, isins)
        IN  IF data.kind = "raised"
            THEN Effect(<<f.get>>, <<"filter_isins">>, data, f.printed, <<>>)
            ELSE IF IsNone(data.value)
            THEN \* for item in None
                 Effect(<<f.get>>, <<"filter_isins", "write">>,
                        Raised("TypeError"), f.printed, <<>>)
            ELSE Effect(<<f.get>>, <<"filter_isins", "write">>, Returned(NoneVal),
                        f.printed,
                        [i \in 1..Len(data.value.items) |->
                            File(<<dir_path, data.value.items[i].cpcode, ".json">>,
                                 [desc |-> "json_desc",
                                  data |-> data.value.items[i]])])

save(up, isins, file) ==
    LET f == get_json(up)
    IN  IF f.out.kind = "raised" THEN FetchRaised(f)
        ELSE
        LET data == filter_isins(f.out.value, isins)
        IN  IF data.kind = "raised"
            THEN Effect(<<f.get>>, <<"filter_isins">>, data, f.printed, <<>>)
            ELSE \* json.dump(data, f, ...): None is written as null
                 Effect(<<f.get>>, <<"filter_isins", "write">>, Returned(NoneVal),
                        f.printed, <<File(file, data.value)>>)

----------------------------------------------------------------------------
(* exchange.py: chart, show, save_csv. *)

rate_per_unit == "rate_per_unit"

chart(up, currency, from_date, to_date) ==
    LET f == get_rates(up, currency, from_date, to_date)
    IN  IF f.out.kind = "raised" THEN FetchRaised(f)
        ELSE LET df == DataFrame(f.out.value)
             IN  IF {exchange_date, rate_per_unit} \subseteq Columns(df)
                 THEN Effect(<<f.get>>, <<"DataFrame", "plot">>,
                             Returned(NoneVal), f.printed, <<>>)
                 ELSE Effect(<<f.get>>, <<"DataFrame">>, Raised("KeyError"),
                             f.printed, <<>>)

exchange_show(up, currency, from_date, to_date) ==
    LET f == get_rates(up, currency, from_date, to_date)
    IN  IF f.out.kind = "raised" THEN FetchRaised(f)
        ELSE LET df == DataFrame(f.out.value)
             IN  IF {exchange_date, rate_per_unit} \subseteq Columns(df)
                 THEN Effect(<<f.get>>, <<"DataFrame", "print">>,
                             Returned(NoneVal),
                             f.printed \o <<Table(
                                [i \in 1..Len(df) |->
                                    [exchangedate |-> df[i].exchangedate,
                                     rate_per_unit |-> df[i].rate_per_unit]])>>,
                             <<>>)
                 ELSE Effect(<<f.get>>, <<"DataFrame">>, Raised("KeyError"),
                             f.printed, <<>>)

\* pd.DataFrame(None).to_csv(file) writes the file of an empty frame.
save_csv(up, currency, from_date, to_date, file_csv) ==
    LET f == get_rates(up, currency, from_date, to_date)
    IN  IF f.out.kind = "raised" THEN FetchRaised(f)
        ELSE Effect(<<f.get>>, <<"DataFrame", "write">>, Returned(NoneVal),
                    f.printed, <<File(file_csv, DataFrame(f.out.value))>>)

----------------------------------------------------------------------------
(* web_exchange.py: update_page. *)

\* update_chart: the two frames concatenated; df["Date"] needs the column.
update_chart(usd_rates, eur_rates) ==
    LET df == DataFrame(usd_rates) \o DataFrame(eur_rates)
    IN  IF {"cc", exchange_date, rate_per_unit} \subseteq Columns(df)
        THEN Returned([figure |-> df])
        ELSE Raised("KeyError")

\* update_table: each frame must have exchangedate and rate_per_unit.
update_table(usd_rates, eur_rates) ==
    LET usd == DataFrame(usd_rates)
        eur == DataFrame(eur_rates)
    IN  IF /\ {exchange_date, rate_per_unit} \subseteq Columns(usd)
           /\ {exchange_date, rate_per_unit} \subseteq Columns(eur)
        THEN Returned([table |-> <<usd, eur>>])
        ELSE Raised("KeyError")

update_page(up, start, end) ==
    LET usd == get_rates(up, "USD", start, end)
    IN  IF usd.out.kind = "raised" THEN FetchRaised(usd)
        ELSE
        LET eur == get_rates(up, "EUR", start, end)
            g == <<usd.get, eur.get>>
            printed == usd.printed \o eur.printed
        IN  IF eur.out.kind = "raised"
            THEN Effect(g, <<>>, eur.out, printed, <<>>)
            ELSE
            LET fg == update_chart(usd.out.value, eur.out.value)
                tbl == update_table(usd.out.value, eur.out.value)
            IN  IF fg.kind = "raised"
                THEN Effect(g, <<"update_chart">>, fg, printed, <<>>)
                ELSE IF tbl.kind = "raised"
                THEN Effect(g, <<"update_chart", "update_table">>, tbl,
                            printed, <<>>)
                ELSE Effect(g, <<"update_chart", "update_table">>,
                            Returned([fg |-> fg.value, tbl |-> tbl.value]), printed, <<>>)

----------------------------------------------------------------------------
(* The values the model draws its inputs from. *)

D1 == Date(2024, 2, 1)
D2 == Date(2025, 1, 1)

IsoText(d) == <<d.year, d.month, d.day>>      \* "2024-02-01"
UsText(d) == <<d.month, d.day, d.year>>       \* "02/01/2024"

\* The service writes every date of one response in one format.
DateTexts == {{IsoText(D1), IsoText(D2)}, {UsText(D1), UsText(D2)}}

ValCodes == {"UAH", "USD"}
PayVals == {1, 2}
Cpcodes == <<"UA1", "UA2">>

\* A payment event as the service sends it; any of pay_date and pay_val may
\* be absent from the object.
PaymentEvents(texts) ==
    [pay_date : texts, pay_type : {1}, pay_val : PayVals]
        \cup [pay_type : {1}, pay_val : PayVals]
        \cup [pay_date : texts, pay_type : {1}]
        \cup [pay_type : {1}]

BondsWith(cp, n, texts) ==
    [cpcode : {cp}, val_code : ValCodes, payments : [1..n -> PaymentEvents(texts)]]

\* The arrays of bond objects the bond endpoint may answer with: none, one or
\* both instruments, the first with n and the second with m payment events.
BondBodies(n, m, texts) ==
    UNION {{<<>>, <<a>>, <<b>>, <<a, b>>} :
            a \in BondsWith(Cpcodes[1], n, texts),
            b \in BondsWith(Cpcodes[2], m, texts)}

\* The body of an answer that is no success: the fetchers never read it.
ErrorPage == [type |-> "text", text |-> "error page"]

ServiceUnavailable == HttpResponse(503, "Service Unavailable", ErrorPage)

NotFound == HttpResponse(404, "Not Found", ErrorPage)

Ok(body) == HttpResponse(200, "OK", body)

NoRates == Ok(List(<<>>))

Ids == {"UA1", "UA2", "UA9"}

----------------------------------------------------------------------------
(* The operations. *)

\* Every invocation starts from the state the process starts in: the command
\* line tools run one command per process, and no handler keeps anything from
\* one call to the next.
Fresh == call.op = "none"

Run(c, eff) ==
    /\ call' = c
    /\ gets' = eff.gets
    /\ stages' = eff.stages
    /\ result' = eff.result
    /\ console' = eff.console
    /\ files' = eff.files
    /\ UNCHANGED <<today, upstream>>

Pure(c, res) == Run(c, Effect(<<>>, <<>>, res, <<>>, <<>>))

\* filter_isins(data, isins) on its own
FilterRecords == [cpcode : {"UA1", "UA2"}, nominal : {1000, 2000}]

FilterIsins ==
    /\ Fresh
    /\ \E items \in SeqsUpTo(FilterRecords, MaxRecords) :
       \E isins \in {NoneVal} \cup {List(s) : s \in SeqsUpTo(Ids, MaxIds)} :
           Pure([op |-> "filter_isins", data |-> List(items), isins |-> isins],
                filter_isins(List(items), isins))

\* RequestBuilder(...).build() on its own
QueryDates == {Date(2024, 12, 31), Date(2025, 1, 1), Date(2025, 1, 31)}

Build ==
    /\ Fresh
    /\ \E date_from \in QueryDates, date_to \in QueryDates :
       \E currency \in {"USD", "EUR", "usd"}, sort_by \in {exchange_date, "rate"} :
       \E is_sort_desc \in BOOLEAN, is_json_format \in BOOLEAN :
           LET rb == [RequestBuilder(date_from, date_to, currency, sort_by) EXCEPT
                         !.is_sort_desc = is_sort_desc,
                         !.is_json_format = is_json_format]
           IN  Pure([op |-> "build", rb |-> rb], Returned(build(rb)))

\* gbonds.py payments [-a] [-s ...].  reference_date is the date the caller
\* would filter by; show_payments has no parameter that takes it.
ShowPayments ==
    /\ Fresh
    /\ \E isins \in {NoneVal, List(<<"UA1">>), List(<<"UA9">>)} :
       \E include_paid \in BOOLEAN, reference_date \in {D1, D2} :
           Run([op |-> "show_payments", isins |-> isins,
                include_paid |-> include_paid, reference_date |-> reference_date],
               show_payments(upstream, isins, include_paid, today))

SampleBonds ==
    <<[cpcode |-> "UA1", val_code |-> "UAH",
       payments |-> <<[pay_date |-> IsoText(D2), pay_type |-> 1, pay_val |-> 2]>>],
      [cpcode |-> "UA2", val_code |-> "USD", payments |-> <<>>]>>

\* exchangedate is written day first, "01.01.2025"
SampleRates(cc) ==
    <<[exchangedate |-> <<1, 1, 2025>>, cc |-> cc, rate_per_unit |-> 42]>>

\* A 200 answer may carry any JSON document, the document null among them.
BondResponses ==
    {Ok(List(SampleBonds)), Ok(NoneVal), ServiceUnavailable, TransportError}

RateResponses(cc) ==
    {Ok(List(SampleRates(cc))), ServiceUnavailable, NotFound, TransportError}

IsinArgs == {NoneVal, List(<<"UA1">>)}

RateCodes == {"USD", "EUR"}

GetJson ==
    /\ Fresh
    /\ LET f == get_json(upstream)
       IN  Run([op |-> "get_json"], Effect(<<f.get>>, <<>>, f.out, f.printed, <<>>))

GetRates ==
    /\ Fresh
    /\ \E currency \in RateCodes, from_date \in QueryDates, to_date \in QueryDates :
           LET f == get_rates(upstream, currency, from_date, to_date)
           IN  Run([op |-> "get_rates", currency |-> currency,
                    from_date |-> from_date, to_date |-> to_date],
                   Effect(<<f.get>>, <<>>, f.out, f.printed, <<>>))

\* gbonds.py show [--show-format table|json]
Show ==
    /\ Fresh
    /\ \E isins \in IsinArgs, format \in {"table", "json"} :
           Run([op |-> "gbonds.show", isins |-> isins, format |-> format],
               gbonds_show(upstream, isins, format))

\* gbonds.py save -f FILE
Save ==
    /\ Fresh
    /\ \E isins \in IsinArgs :
           Run([op |-> "save", isins |-> isins, file |-> "data.json"],
               save(upstream, isins, "data.json"))

ToFile ==
    /\ Fresh
    /\ \E isins \in IsinArgs :
           Run([op |-> "to_file", isins |-> isins, dir_path |-> "."],
               to_file(upstream, isins, "."))

\* exchange.py -a chart|show|save -c CUR -s FROM -e TO
Chart ==
    /\ Fresh
    /\ \E currency \in RateCodes, from_date \in QueryDates, to_date \in QueryDates :
           Run([op |-> "chart", currency |-> currency,
                from_date |-> from_date, to_date |-> to_date],
               chart(upstream, currency, from_date, to_date))

ExchangeShow ==
    /\ Fresh
    /\ \E currency \in RateCodes, from_date \in QueryDates, to_date \in QueryDates :
           Run([op |-> "exchange.show", currency |-> currency,
                from_date |-> from_date, to_date |-> to_date],
               exchange_show(upstream, currency, from_date, to_date))

SaveCsv ==
    /\ Fresh
    /\ \E currency \in RateCodes, from_date \in QueryDates, to_date \in QueryDates :
           Run([op |-> "save_csv", currency |-> currency,
                from_date |-> from_date, to_date |-> to_date, file_csv |-> "usd.csv"],
               save_csv(upstream, currency, from_date, to_date, "usd.csv"))

\* The dashboard's callback; the date picker hands it ISO texts, which
\* datetime.strptime(..., "%Y-%m-%d").date() turns into dates.
UpdatePage ==
    /\ Fresh
    /\ \E start \in QueryDates, end \in QueryDates :
           Run([op |-> "update_page", from_date |-> start, to_date |-> end],
               update_page(upstream, to_datetime(IsoText(start)),
                           to_datetime(IsoText(end))))

----------------------------------------------------------------------------
(* Specifications. *)

QuietUpstream == [k \in {"bonds", "USD", "EUR"} |-> NoRates]

InitFilter == today = D2 /\ upstream = QuietUpstream /\ Idle

SpecFilter == InitFilter /\ [][FilterIsins]_vars

SpecBuild == InitFilter /\ [][Build]_vars

InitPayments ==
    /\ today \in {D1, D2}
    /\ \/ \E r \in {ServiceUnavailable, TransportError} :
            upstream = [QuietUpstream EXCEPT !["bonds"] = r]
       \/ \E texts \in DateTexts :
          \E n \in 0..MaxEvents :
          \E m \in 0..(MaxEvents - n) :
          \E body \in BondBodies(n, m, texts) :
            upstream = [QuietUpstream EXCEPT !["bonds"] = Ok(List(body))]
    /\ Idle

SpecPayments == InitPayments /\ [][ShowPayments]_vars

----------------------------------------------------------------------------
(* Record Filter (filter_isins), under SpecFilter. *)

\* out is data restricted to the indices in idx, in data's order.
IsRestriction(out, data, idx) ==
    /\ Len(out) = Cardinality(idx)
    /\ \E f \in [1..Len(out) -> idx] :
          /\ \A i, j \in 1..Len(out) : i < j => f[i] < f[j]
          /\ \A i \in 1..Len(out) : out[i] = data[f[i]]

\* C4: with an empty or absent id list filter_isins returns its input as it
\* is; otherwise it returns exactly the records whose cpcode is in the list,
\* in their original order and unchanged, and an id no record has raises
\* nothing.
C4_FilterResult ==
    call.op = "filter_isins" =>
        /\ result.kind = "returned"
        /\ IF call.isins.type = "list" /\ call.isins.items # <<>>
           THEN /\ result.value.type = "list"
                /\ IsRestriction(result.value.items, call.data.items,
                        {i \in 1..Len(call.data.items) :
                            \E k \in 1..Len(call.isins.items) :
                                call.data.items[i].cpcode = call.isins.items[k]})
           ELSE result.value = call.data

\* A filter that kept some records and dropped others, with two records of
\* the same cpcode kept and an id in the list that no record has.
C4_Witness ==
    /\ call.op = "filter_isins"
    /\ call.isins.type = "list"
    /\ "UA9" \in Range(call.isins.items)
    /\ result.kind = "returned"
    /\ Len(result.value.items) = 2
    /\ Len(call.data.items) = 3
    /\ result.value.items[1].cpcode = result.value.items[2].cpcode
    /\ result.value.items[1] # result.value.items[2]

----------------------------------------------------------------------------
(* Query Builder (RequestBuilder.build), under SpecBuild. *)

\* C5: build() returns a parameter map with start, end, valcode, sort and
\* order; order is "desc" exactly when is_sort_desc, else "asc"; valcode is
\* the currency as passed; json is there exactly when is_json_format.
C5_BuildParams ==
    call.op = "build" =>
        LET p == result.value.url_params
        IN  /\ {"start", "end", "valcode", "sort", "order"} \subseteq DOMAIN p
            /\ p.order = (IF call.rb.is_sort_desc THEN "desc" ELSE "asc")
            /\ p.valcode = call.rb.currency
            /\ p.sort = call.rb.sort_by
            /\ ("json" \in DOMAIN p) <=> call.rb.is_json_format
            /\ DOMAIN p \subseteq {"start", "end", "valcode", "sort", "order", "json"}

\* An ascending query in CSV form for a currency written in lower case.
C5_Witness ==
    /\ call.op = "build"
    /\ ~call.rb.is_sort_desc
    /\ ~call.rb.is_json_format
    /\ call.rb.currency = "usd"
    /\ result.value.url_params.order = "asc"

----------------------------------------------------------------------------
(* Payment Schedule Aggregator (show_payments), under SpecPayments. *)

\* The invocation fetched the bond array and went on to aggregate it.
Fetched ==
    /\ call.op = "show_payments"
    /\ ~Failed(upstream["bonds"])

\* The bonds the aggregation is run on: the fetched array after filter_isins.
InputBonds ==
    LET body == upstream["bonds"].body.items
        keep(b) == b.cpcode \in Range(call.isins.items)
    IN  IF call.isins.type = "list" /\ call.isins.items # <<>>
        THEN SelectSeq(body, keep)
        ELSE body

\* The invocation printed a ledger.
Completed == Fetched /\ result.kind = "returned" /\ Len(console) = 1

Ledger == console[1].rows

\* Every payment event of every input bond, as <<bond, event>> indices.
InputEvents ==
    UNION {{<<i, j>> : j \in 1..Len(InputBonds[i].payments)} :
            i \in 1..Len(InputBonds)}

Event(x) == InputBonds[x[1]].payments[x[2]]

RECURSIVE SumSeq(_)
SumSeq(s) == IF s = <<>> THEN 0 ELSE Head(s) + SumSeq(Tail(s))

LedgerTotal == SumSeq([i \in 1..Len(Ledger) |-> Ledger[i].pay_per_bond])

\* The pay_val of the events of one bond that carry one.
BondTotal(bond) ==
    SumSeq([j \in 1..Len(bond.payments) |->
                IF "pay_val" \in DOMAIN bond.payments[j]
                THEN bond.payments[j].pay_val
                ELSE 0])

InputTotal == SumSeq([i \in 1..Len(InputBonds) |-> BondTotal(InputBonds[i])])

Malformed(e) == "pay_date" \notin DOMAIN e \/ "pay_val" \notin DOMAIN e

\* C1: with past payments included, the amounts of the ledger add up to the
\* pay_val of every payment event of every input bond.
C1_Conservation ==
    (Completed /\ call.include_paid) => LedgerTotal = InputTotal

\* The same on input whose events all carry pay_date: there the totals agree.
ConservationOfDatedEvents ==
    (Completed /\ call.include_paid
        /\ \A x \in InputEvents : "pay_date" \in DOMAIN Event(x))
    => LedgerTotal = InputTotal

\* C2: the ledger is in ascending order of (pay_date as a calendar date,
\* val_code), and no two rows have the same (pay_date, val_code).
C2_SortedNoDuplicates ==
    Completed =>
        \A i, j \in 1..Len(Ledger) :
            i < j =>
                \/ DateLess(Ledger[i].pay_date, Ledger[j].pay_date)
                \/ /\ Ledger[i].pay_date = Ledger[j].pay_date
                   /\ CodeRank(Ledger[i].val_code) < CodeRank(Ledger[j].val_code)

\* The part of C2 the code does keep: no two rows share a key, and when the
\* service writes dates year first the rows are in calendar order.
NoDuplicateKeys ==
    Completed =>
        \A i, j \in 1..Len(Ledger) :
            i # j => \/ Ledger[i].pay_date # Ledger[j].pay_date
                     \/ Ledger[i].val_code # Ledger[j].val_code

SortedWhenIso ==
    (Completed /\ \A x \in InputEvents :
                    "pay_date" \in DOMAIN Event(x) => Event(x).pay_date[1] > 31)
    => \A i, j \in 1..Len(Ledger) :
            i < j =>
                \/ DateLess(Ledger[i].pay_date, Ledger[j].pay_date)
                \/ /\ Ledger[i].pay_date = Ledger[j].pay_date
                   /\ CodeRank(Ledger[i].val_code) < CodeRank(Ledger[j].val_code)

\* The ledger of the same input with the past included.
FullLedger == Aggregate(List(InputBonds), TRUE, today).value

C8_FailFast ==
    (Fetched /\ \E x \in InputEvents : Malformed(Event(x)))
    => result.kind = "raised" /\ console = <<>>

\* C10: bonds without payments are neutral: the aggregation completes, and
\* its ledger is the one of the input without those bonds, the empty ledger
\* when no bond has a payment.  (Stated on input whose events are all well
\* formed.)
C10_EmptyPaymentsNeutral ==
    (Fetched /\ \A x \in InputEvents : ~Malformed(Event(x)))
    => /\ Completed
       /\ LET paying(b) == b.payments # <<>>
              rest == SelectSeq(InputBonds, paying)
          IN  Ledger = IF rest = <<>>
                       THEN <<>>
                       ELSE Aggregate(List(rest), call.include_paid, today).value

\* The part of C10 the code does keep: next to a bond that pays, a bond
\* without payments changes nothing.
NeutralBesidePayingBond ==
    (Fetched /\ (\A x \in InputEvents : ~Malformed(Event(x))) /\ InputEvents # {})
    => /\ Completed
       /\ LET paying(b) == b.payments # <<>>
          IN  Ledger = Aggregate(List(SelectSeq(InputBonds, paying)),
                                 call.include_paid, today).value

Init ==
    /\ today = D2
    /\ upstream \in [bonds : BondResponses,
                      USD : RateResponses("USD"),
                      EUR : RateResponses("EUR")]
    /\ Idle

Next ==
    \/ GetJson
    \/ GetRates
    \/ Show
    \/ ShowPayments
    \/ Save
    \/ ToFile
    \/ Chart
    \/ ExchangeShow
    \/ SaveCsv
    \/ UpdatePage

Spec == Init /\ [][Next]_vars

----------------------------------------------------------------------------
(* Data Fetcher and the pipelines, under Spec. *)

\* The answer the fetch of a get_json or get_rates call received.
Answer == upstream[IF call.op = "get_json" THEN "bonds" ELSE call.currency]

FetcherCalled == call.op \in {"get_json", "get_rates"}

SuccessBodies ==
    {r.body : r \in {x \in BondResponses \cup RateResponses("USD")
                            \cup RateResponses("EUR") : ~Failed(x)}}

Pipelines ==
    {"gbonds.show", "show_payments", "save", "to_file",
     "exchange.show", "chart", "save_csv", "update_page"}

\* C7: once a fetch of a pipeline run has failed, the run issues no further
\* GET and runs no later stage.
C7_FailedFetchTerminal ==
    (call.op \in Pipelines /\ \E i \in 1..Len(gets) : gets[i].failed) =>
        /\ \A i \in 1..Len(gets) : gets[i].failed => i = Len(gets)
        /\ stages = <<>>

\* The part of C7 the code does keep: no GET is repeated, and after a
\* transport failure nothing more happens.
NoRetry ==
    call.op \in Pipelines =>
        /\ \A i, j \in 1..Len(gets) : i # j => gets[i].params # gets[j].params
        /\ result = Raised("ConnectionError") =>
                stages = <<>> /\ gets[Len(gets)].failed /\ files = <<>>

RateQueries == {"get_rates", "exchange.show", "chart", "save_csv", "update_page"}

\* C9: a rate query with from_date later than to_date fails before any GET
\* is issued.
C9_InvertedRangeRejected ==
    (call.op \in RateQueries /\ DateLess(call.to_date, call.from_date)) =>
        /\ gets = <<>>
        /\ result.kind = "raised"

\* What the code does with such a query: it sends it as it is.
InvertedRangeSent ==
    (call.op \in RateQueries /\ DateLess(call.to_date, call.from_date)) =>
        /\ Len(gets) >= 1
        /\ gets[1].params.start = strftime_Ymd(call.from_date)
        /\ gets[1].params.end = strftime_Ymd(call.to_date)

====
